---- MODULE Spec2Model ----
(***************************************************************************)
(* powerdns_exporter: the Exporter's collection cycle (Collect, scrape,    *)
(* resetMetrics, setMetrics, collectMetrics), the metric definition        *)
(* tables and makeRecursorRTimeHistogram.                                  *)
(*                                                                         *)
(* A float64 is written <<num, den>> (the rational num/den, den > 0).      *)
(* Every stat value the model feeds in is a non-negative whole number, so  *)
(* den is 1 except after the latency division by 1000000.                  *)
(***************************************************************************)
EXTENDS Integers, Sequences, FiniteSets, TLC

(***************************************************************************)
(* Bounds of the model                                                     *)
(***************************************************************************)
NumCollectors == 2      \* Collect calls that may overlap
MaxCycles     == 2      \* Collect calls in a run with overlapping calls
SeqCycles     == 3      \* Collect calls in a run without overlap
NumProfiles   == 2      \* distinct value assignments of a full snapshot
MaxCount      == 2      \* largest bucket count drawn besides the scenario's

Procs == 1..NumCollectors

(***************************************************************************)
(* float64 helpers                                                         *)
(***************************************************************************)
F(n) == <<n, 1>>

FloatLess(a, b) == a[1] * b[2] < b[1] * a[2]

FloatAdd(a, b) ==
    IF a[2] = b[2] THEN <<a[1] + b[1], a[2]>>
    ELSE <<a[1] * b[2] + b[1] * a[2], a[2] * b[2]>>

\* value / m for a whole-number divisor m
FloatDiv(a, m) == IF a[1] % m = 0 THEN <<a[1] \div m, a[2]>> ELSE <<a[1], a[2] * m>>

\* uint64(value): truncation toward zero of a non-negative float64
Uint64(a) == a[1] \div a[2]

(***************************************************************************)
(* Metric definition tables.  A labelMap is its set of <<key, label>>      *)
(* entries.                                                                *)
(***************************************************************************)
rTimeBucketMap ==
    { <<"answers0-1", <<1, 1000>>>>, <<"answers1-10", <<1, 100>>>>,
      <<"answers10-100", <<1, 10>>>>, <<"answers100-1000", <<1, 1>>>>,
      <<"answers-slow", <<0, 1>>>> }

rTimeLabelMap ==
    { <<"answers0-1", "0-1ms">>, <<"answers1-10", "1-10ms">>,
      <<"answers10-100", "10-100ms">>, <<"answers100-1000", "100-1000ms">>,
      <<"answers-slow", ">1000ms">> }

rCodeLabelMap ==
    { <<"servfail-answers", "servfail">>, <<"nxdomain-answers", "nxdomain">>,
      <<"noerror-answers", "noerror">> }

exceptionsLabelMap ==
    { <<"resource-limits", "resource-limit">>,
      <<"over-capacity-drops", "over-capacity-drop">>,
      <<"unreachables", "ns-unreachable">>,
      <<"outgoing-timeouts", "outgoing-timeout">> }

GDef(i, n, k) == [id |-> i, name |-> n, key |-> k]
CDef(i, n, m) == [id |-> i, name |-> n, labelMap |-> m]

recursorGaugeDefs ==
    << GDef(1, "latency_average_seconds", "qa-latency"),
       GDef(2, "concurrent_queries", "concurrent-queries"),
       GDef(3, "cache_size", "cache-entries") >>

recursorCounterVecDefs ==
    << CDef(1, "incoming_queries_total",
            { <<"questions", "udp">>, <<"tcp-questions", "tcp">> }),
       CDef(2, "outgoing_queries_total",
            { <<"all-outqueries", "udp">>, <<"tcp-outqueries", "tcp">> }),
       CDef(3, "cache_lookups_total",
            { <<"cache-hits", "hit">>, <<"cache-misses", "miss">> }),
       CDef(4, "answers_rcodes_total", rCodeLabelMap),
       CDef(5, "answers_rtime_total", rTimeLabelMap),
       CDef(6, "exceptions_total", exceptionsLabelMap) >>

authoritativeGaugeDefs ==
    << GDef(1, "latency_average_seconds", "latency"),
       GDef(2, "packet_cache_size", "packetcache-size"),
       GDef(3, "signature_cache_size", "signature-cache-size"),
       GDef(4, "key_cache_size", "key-cache-size"),
       GDef(5, "metadata_cache_size", "meta-cache-size"),
       GDef(6, "qsize", "qsize-q") >>

authoritativeCounterVecDefs ==
    << CDef(1, "queries_total",
            { <<"tcp-queries", "tcp">>, <<"udp-queries", "udp">> }),
       CDef(2, "answers_total",
            { <<"tcp-answers", "tcp">>, <<"udp-answers", "udp">> }),
       CDef(3, "recursive_queries_total",
            { <<"rd-queries", "requested">>, <<"recursing-questions", "processed">>,
              <<"recursing-answers", "answered">>,
              <<"recursion-unanswered", "unanswered">> }),
       CDef(4, "update_queries_total",
            { <<"dnsupdate-answers", "answered">>, <<"dnsupdate-changes", "applied">>,
              <<"dnsupdate-queries", "requested">>, <<"dnsupdate-refused", "refused">> }),
       CDef(5, "packet_cache_lookups_total",
            { <<"packetcache-hit", "hit">>, <<"packetcache-miss", "miss">> }),
       CDef(6, "query_cache_lookups_total",
            { <<"query-cache-hit", "hit">>, <<"query-cache-miss", "miss">> }),
       CDef(7, "exceptions_total",
            { <<"servfail-packets", "servfail">>, <<"timedout-questions", "timeout">>,
              <<"udp-recvbuf-errors", "recvbuf-error">>,
              <<"udp-sndbuf-errors", "sndbuf-error">> }) >>

dnsdistGaugeDefs == << >>
dnsdistCounterVecDefs == << >>

\* the server types the exporter may be constructed with; "unknown" stands
\* for any string that no case of NewExporter's switch matches
ServerTypes == {"recursor", "authoritative", "dnsdist", "unknown"}

\* a switch whose unmatched server types fall to the recursor tables
GaugeDefsDefaultRecursor(serverType) ==
    CASE serverType = "authoritative" -> authoritativeGaugeDefs
      [] serverType = "dnsdist" -> dnsdistGaugeDefs
      [] OTHER -> recursorGaugeDefs

\* NewExporter's switch on serverType
GaugeDefsOf(serverType) ==
    CASE serverType = "recursor" -> recursorGaugeDefs
      [] serverType = "authoritative" -> authoritativeGaugeDefs
      [] serverType = "dnsdist" -> dnsdistGaugeDefs
      [] OTHER -> << >>

CounterVecDefsOf(serverType) ==
    CASE serverType = "recursor" -> recursorCounterVecDefs
      [] serverType = "authoritative" -> authoritativeCounterVecDefs
      [] serverType = "dnsdist" -> dnsdistCounterVecDefs
      [] OTHER -> << >>

Range(s) == {s[i] : i \in DOMAIN s}

\* strings.HasSuffix(key, "latency"), tabulated over the keys of the tables
HasSuffixLatency(key) == key \in {"qa-latency", "latency"}


(***************************************************************************)
(* The statistics the PowerDNS API returns: a JSON array of StatsEntry,    *)
(* or an error of getJSON.                                                 *)
(***************************************************************************)
GaugeKeys(serverType) == {d.key : d \in Range(GaugeDefsOf(serverType))}

CounterPairs(serverType) ==
    UNION { {<<d.id, e[1], e[2]>> : e \in d.labelMap} :
            d \in Range(CounterVecDefsOf(serverType)) }

CounterKeys(serverType) == {t[2] : t \in CounterPairs(serverType)}

BucketKeys == {e[1] : e \in rTimeBucketMap}

\* every stats key the exporter of this server type looks up
RegistryKeys(serverType) ==
    GaugeKeys(serverType) \cup CounterKeys(serverType)
      \cup (IF serverType = "recursor" THEN BucketKeys ELSE {})

\* a statistic the server reports and no table refers to
ExtraKey == "uptime"

\* the number of lookups (gauge definitions plus labelMap entries) of key k
Refs(serverType, k) ==
    Cardinality({d \in Range(GaugeDefsOf(serverType)) : d.key = k})
      + Cardinality({t \in CounterPairs(serverType) : t[2] = k})

BaseValue(k) ==
    CASE k = "questions" -> 10
      [] k = "tcp-questions" -> 2
      [] k = "cache-hits" -> 8
      [] k = "cache-misses" -> 1
      [] k = "answers0-1" -> 1
      [] k = "answers1-10" -> 10
      [] k = "answers10-100" -> 100
      [] k = "answers100-1000" -> 1000
      [] k = "answers-slow" -> 0
      [] k \in {"qa-latency", "latency"} -> 5000000
      [] OTHER -> 3

\* the value of key k in the v-th value assignment
StatValue(k, v) == F(BaseValue(k) * v + (v - 1))

RECURSIVE SetToSeq(_)
SetToSeq(S) ==
    IF S = {} THEN << >>
    ELSE LET x == CHOOSE y \in S : TRUE IN <<x>> \o SetToSeq(S \ {x})

\* the array the server sends: one StatsEntry per key it has, without the
\* keys in missing
Stats(serverType, v, missing) ==
    LET names == SetToSeq((RegistryKeys(serverType) \cup {ExtraKey}) \ missing)
    IN  [i \in 1..Len(names) |-> [Name |-> names[i], Value |-> StatValue(names[i], v)]]

FullStats(serverType, v) == Stats(serverType, v, {})

\* what getJSON hands to scrape: an error, or the decoded array
FetchError == [err |-> TRUE, data |-> << >>]
FetchOK(data) == [err |-> FALSE, data |-> data]

\* the arrays drawn when calls do not overlap: every full snapshot, the
\* first one with any single key removed, one with no table key at all,
\* and the empty array
WideStats(serverType) ==
    {FullStats(serverType, v) : v \in 1..NumProfiles}
      \cup {Stats(serverType, 1, {k}) : k \in RegistryKeys(serverType)}
      \cup {Stats(serverType, 1, RegistryKeys(serverType)), << >>}

\* one key of each table, removed in the runs with overlapping calls
SampleKeys(serverType) ==
    CASE serverType = "recursor" -> {"cache-misses"}
      [] serverType = "authoritative" -> {"packetcache-size"}
      [] OTHER -> {}

NarrowStats(serverType) ==
    {FullStats(serverType, 1), FullStats(serverType, NumProfiles), << >>}
      \cup {Stats(serverType, 1, {k}) : k \in SampleKeys(serverType)}

\* keys the server may report twice: one per kind of use in the tables
\* (a latency gauge, a plain gauge, a counter label, a histogram bucket
\* that is also a counter label) and one no table refers to
RepeatedKeys(serverType) ==
    CASE serverType = "recursor" ->
            {"qa-latency", "cache-entries", "questions", "answers0-1", ExtraKey}
      [] serverType = "authoritative" -> {"latency", "qsize-q", "udp-queries", ExtraKey}
      [] OTHER -> {ExtraKey}

\* the full array with a second entry for key k, of another value, put
\* after all the entries or before them
RepeatedAtEnd(serverType, k) ==
    Append(FullStats(serverType, 1), [Name |-> k, Value |-> StatValue(k, 2)])

RepeatedAtFront(serverType, k) ==
    <<[Name |-> k, Value |-> StatValue(k, 2)]>> \o FullStats(serverType, 1)

\* the arrays with a repeated name, of each server type
RepeatStats ==
    [t \in ServerTypes |->
        {RepeatedAtEnd(t, k) : k \in RepeatedKeys(t)}
          \cup {RepeatedAtFront(t, k) : k \in RepeatedKeys(t)}]

\* the arrays of each server type, by kind of run
StatsOf ==
    [wide \in BOOLEAN |->
        [t \in ServerTypes |-> IF wide THEN WideStats(t) ELSE NarrowStats(t)]]

(***************************************************************************)
(* setMetrics, resetMetrics                                                *)
(***************************************************************************)
\* a name already in the map keeps its first value
RECURSIVE MakeStatsMapFirstWins(_, _, _)
MakeStatsMapFirstWins(stats, i, m) ==
    IF i > Len(stats) THEN m
    ELSE MakeStatsMapFirstWins(stats, i + 1,
            [k \in DOMAIN m \cup {stats[i].Name} |->
                IF k \in DOMAIN m THEN m[k] ELSE stats[i].Value])

\* statsMap[s.Name] = s.Value for each entry in order
RECURSIVE MakeStatsMap(_, _, _)
MakeStatsMap(stats, i, m) ==
    IF i > Len(stats) THEN m
    ELSE MakeStatsMap(stats, i + 1,
            [k \in DOMAIN m \cup {stats[i].Name} |->
                IF k = stats[i].Name THEN stats[i].Value ELSE m[k]])

EmptyMap == [k \in {} |-> F(0)]

StatsMapOf(stats) == MakeStatsMap(stats, 1, EmptyMap)

\* every gauge set to the raw value
GaugeValueRaw(key, value) == value

\* the value a gauge is set to
GaugeValue(key, value) ==
    IF HasSuffixLatency(key) THEN FloatDiv(value, 1000000) ELSE value

\* the gauge loop left at the first missing key
RECURSIVE SetGaugesAbort(_, _, _, _)
SetGaugesAbort(defs, i, statsMap, st) ==
    IF i > Len(defs) THEN st
    ELSE IF defs[i].key \in DOMAIN statsMap
         THEN SetGaugesAbort(defs, i + 1, statsMap,
                [st EXCEPT !.gauges[defs[i].id] =
                    GaugeValue(defs[i].key, statsMap[defs[i].key])])
         ELSE [st EXCEPT !.failures = @ + 1]

\* the gauge loop setting a gauge to 0 when its key is missing
RECURSIVE SetGaugesZeroMissing(_, _, _, _)
SetGaugesZeroMissing(defs, i, statsMap, st) ==
    IF i > Len(defs) THEN st
    ELSE IF defs[i].key \in DOMAIN statsMap
         THEN SetGaugesZeroMissing(defs, i + 1, statsMap,
                [st EXCEPT !.gauges[defs[i].id] =
                    GaugeValue(defs[i].key, statsMap[defs[i].key])])
         ELSE SetGaugesZeroMissing(defs, i + 1, statsMap,
                [st EXCEPT !.gauges[defs[i].id] = F(0), !.failures = @ + 1])

\* the loop over e.gaugeDefs; st = [gauges, failures]
RECURSIVE SetGauges(_, _, _, _)
SetGauges(defs, i, statsMap, st) ==
    IF i > Len(defs) THEN st
    ELSE IF defs[i].key \in DOMAIN statsMap
         THEN SetGauges(defs, i + 1, statsMap,
                [st EXCEPT !.gauges[defs[i].id] =
                    GaugeValue(defs[i].key, statsMap[defs[i].key])])
         ELSE SetGauges(defs, i + 1, statsMap,
                [st EXCEPT !.failures = @ + 1])

\* a CounterVec that accumulates: Reset keeps the children and their values,
\* and a child is added to rather than set
AccumulatingVecCall(vec, method, label, value) ==
    IF method = "Reset" THEN vec
    ELSE [l \in DOMAIN vec \cup {label} |->
            IF l # label THEN vec[l]
            ELSE IF l \in DOMAIN vec THEN FloatAdd(vec[l], value) ELSE value]

\* a CounterVec whose Reset leaves the children in place
KeepingVecCall(vec, method, label, value) ==
    IF method = "Reset" THEN vec
    ELSE [l \in DOMAIN vec \cup {label} |-> IF l = label THEN value ELSE vec[l]]

\* the two calls the exporter makes on a prometheus.CounterVec:
\* Reset() deletes every child; WithLabelValues(label).Set(value) creates the
\* label's child if it is absent and sets it
CounterVecCall(vec, method, label, value) ==
    IF method = "Reset" THEN [l \in {} |-> F(0)]
    ELSE [l \in DOMAIN vec \cup {label} |-> IF l = label THEN value ELSE vec[l]]

\* prometheus.NewCounterVec: a vector without children
NewVec == [l \in {} |-> F(0)]

SetLabel(vec, label, value) == CounterVecCall(vec, "Set", label, value)

\* the entries of every labelMap of the tables, in the order the loop below
\* takes them
LabelEntries ==
    [m \in {d.labelMap : d \in Range(recursorCounterVecDefs)
                               \cup Range(authoritativeCounterVecDefs)} |->
        SetToSeq(m)]

\* the loop over the labelMap of the definition id, from its i-th entry;
\* st = [vecs, failures]
RECURSIVE SetLabels(_, _, _, _, _)
SetLabels(id, entries, i, statsMap, st) ==
    IF i > Len(entries) THEN st
    ELSE SetLabels(id, entries, i + 1, statsMap,
            IF entries[i][1] \in DOMAIN statsMap
            THEN [st EXCEPT !.vecs[id] =
                    SetLabel(@, entries[i][2], statsMap[entries[i][1]])]
            ELSE [st EXCEPT !.failures = @ + 1])

\* the loop over e.counterVecDefs; st = [vecs, failures]
RECURSIVE SetCounterVecs(_, _, _, _)
SetCounterVecs(defs, i, statsMap, st) ==
    IF i > Len(defs) THEN st
    ELSE SetCounterVecs(defs, i + 1, statsMap,
            SetLabels(defs[i].id, LabelEntries[defs[i].labelMap], 1, statsMap, st))

\* setMetrics running both loops also on an empty statsMap
SetMetricsNoEarlyReturn(serverType, stats, gauges, vecs, failures) ==
    LET statsMap == StatsMapOf(stats)
        g == SetGauges(GaugeDefsOf(serverType), 1, statsMap,
                [gauges |-> gauges, failures |-> failures])
        c == SetCounterVecs(CounterVecDefsOf(serverType), 1, statsMap,
                [vecs |-> vecs, failures |-> g.failures])
    IN  [statsMap |-> statsMap, gauges |-> g.gauges, vecs |-> c.vecs,
         failures |-> c.failures]

\* setMetrics after the receive: the instruments and the parse failures it
\* leaves, for the received array stats (nil when the channel was closed)
SetMetricsResult(serverType, stats, gauges, vecs, failures) ==
    LET statsMap == StatsMapOf(stats)
    IN  IF Cardinality(DOMAIN statsMap) = 0
        THEN [statsMap |-> statsMap, gauges |-> gauges, vecs |-> vecs,
              failures |-> failures]
        ELSE LET g == SetGauges(GaugeDefsOf(serverType), 1, statsMap,
                         [gauges |-> gauges, failures |-> failures])
                 c == SetCounterVecs(CounterVecDefsOf(serverType), 1, statsMap,
                         [vecs |-> vecs, failures |-> g.failures])
             IN  [statsMap |-> statsMap, gauges |-> g.gauges, vecs |-> c.vecs,
                  failures |-> c.failures]

ResetVec(vec) == CounterVecCall(vec, "Reset", "", F(0))

\* no vector reset
KeepMetrics(vecs) == vecs

\* resetMetrics
ResetMetricsResult(vecs) == [id \in DOMAIN vecs |-> ResetVec(vecs[id])]

(***************************************************************************)
(* makeRecursorRTimeHistogram                                              *)
(***************************************************************************)
RECURSIVE SortFloat64s(_)
SortFloat64s(S) ==
    IF S = {} THEN << >>
    ELSE LET m == CHOOSE x \in S : \A y \in S : ~FloatLess(y, x)
         IN  <<m>> \o SortFloat64s(S \ {m})

\* the overflow entry (bound 0) left out of the sample count
RECURSIVE SumFiniteCounts(_, _)
SumFiniteCounts(entries, statsMap) ==
    IF entries = {} THEN 0
    ELSE LET e == CHOOSE x \in entries : TRUE
         IN  (IF e[2] = F(0) THEN 0 ELSE Uint64(statsMap[e[1]]))
               + SumFiniteCounts(entries \ {e}, statsMap)

RECURSIVE SumCounts(_, _)
SumCounts(entries, statsMap) ==
    IF entries = {} THEN 0
    ELSE LET e == CHOOSE x \in entries : TRUE
         IN  Uint64(statsMap[e[1]]) + SumCounts(entries \ {e}, statsMap)

\* the buckets left linear
LinearCumulate(keys, i, cumsum, buckets) == buckets

\* the second loop: linear buckets to cumulative buckets, keys ascending
RECURSIVE Cumulate(_, _, _, _)
Cumulate(keys, i, cumsum, buckets) ==
    IF i > Len(keys) THEN buckets
    ELSE Cumulate(keys, i + 1, cumsum + buckets[keys[i]],
            [buckets EXCEPT ![keys[i]] = cumsum + buckets[keys[i]]])

\* the buckets map after the first loop: the entries with a bound other than 0
LinearBuckets(statsMap) ==
    LET finite == {e \in rTimeBucketMap : e[2] # F(0)}
    IN  [b \in {e[2] : e \in finite} |->
            Uint64(statsMap[(CHOOSE e \in finite : e[2] = b)[1]])]

\* a missing bucket key counted as 0 instead of reported as an error
HistogramMissingAsZero(statsMap) ==
    LET m == [k \in BucketKeys |->
                IF k \in DOMAIN statsMap THEN statsMap[k] ELSE F(0)]
        linear == LinearBuckets(m)
        keys == SortFloat64s(DOMAIN linear)
    IN  [err |-> FALSE,
         count |-> SumCounts(rTimeBucketMap, m),
         sum |-> 0,
         buckets |-> Cumulate(keys, 1, 0, linear)]

makeRecursorRTimeHistogram(statsMap) ==
    IF \E e \in rTimeBucketMap : e[1] \notin DOMAIN statsMap
    THEN [err |-> TRUE, count |-> 0, sum |-> 0, buckets |-> << >>]
    ELSE LET linear == LinearBuckets(statsMap)
             keys == SortFloat64s(DOMAIN linear)
         IN  [err |-> FALSE,
              count |-> SumCounts(rTimeBucketMap, statsMap),
              sum |-> 0,
              buckets |-> Cumulate(keys, 1, 0, linear)]


(***************************************************************************)
(* collectMetrics.  The stream ch of one Collect call is the sequence of   *)
(* its sends; the metrics of one range over a Go map, whose order is not   *)
(* fixed, are one entry of that sequence, a set.                           *)
(***************************************************************************)
M(kind, id, label, value) == [kind |-> kind, id |-> id, label |-> label, value |-> value]

Emit(ch, batch) == IF batch = {} THEN ch ELSE Append(ch, batch)

\* for _, m := range e.counterVecMetrics { m.Collect(ch) }
CounterBatch(vecs) ==
    UNION { {M("counter", id, l, vecs[id][l]) : l \in DOMAIN vecs[id]} : id \in DOMAIN vecs }

\* for _, m := range e.gaugeMetrics { ch <- m }
GaugeBatch(gauges) == {M("gauge", id, "", gauges[id]) : id \in DOMAIN gauges}

HistogramBatch(serverType, statsMap) ==
    IF serverType = "recursor" /\ ~makeRecursorRTimeHistogram(statsMap).err
    THEN {M("histogram", 0, "", makeRecursorRTimeHistogram(statsMap))}
    ELSE {}

\* the gauges sent before the counter vectors
collectMetricsGaugesFirst(ch, serverType, vecs, gauges, statsMap) ==
    Emit(Emit(Emit(ch, GaugeBatch(gauges)), CounterBatch(vecs)),
         HistogramBatch(serverType, statsMap))

collectMetrics(ch, serverType, vecs, gauges, statsMap) ==
    Emit(Emit(Emit(ch, CounterBatch(vecs)), GaugeBatch(gauges)),
         HistogramBatch(serverType, statsMap))

(***************************************************************************)
(* State                                                                   *)
(***************************************************************************)
VARIABLES
    ServerType,         \* e.ServerType, fixed by NewExporter
    up,                 \* e.up
    totalScrapes,       \* e.totalScrapes
    jsonParseFailures,  \* e.jsonParseFailures
    gaugeMetrics,       \* e.gaugeMetrics: id -> value
    counterVecMetrics,  \* e.counterVecMetrics: id -> (label -> value)
    mutex,              \* e.mutex: 0 when free, else the Collect call holding it
    pc,                 \* where each Collect call stands
    spc,                \* where the scrape goroutine of each call stands
    fetched,            \* scrape's err and data, the result of getJSON
    jsonStats,          \* the channel of each call: "open" or "closed"
    statsMap,           \* setMetrics' result in each call
    out,                \* what each call has sent on ch
    calls,              \* Collect calls made so far
    seen,               \* per call, values recorded at its steps (history)
    histIn,             \* makeRecursorRTimeHistogram applied alone: its argument
    histOut             \*   and its result

vars == <<ServerType, up, totalScrapes, jsonParseFailures, gaugeMetrics,
          counterVecMetrics, mutex, pc, spc, fetched, jsonStats, statsMap, out,
          calls, seen, histIn, histOut>>

exporter == <<up, totalScrapes, jsonParseFailures, gaugeMetrics, counterVecMetrics>>
histVars == <<histIn, histOut>>

NoHistogram == [err |-> TRUE, count |-> 0, sum |-> 0, buckets |-> << >>]

Running(p) == pc[p] \notin {"idle", "done"}

\* the values a call records: at its start (prev is what the call before it
\* in the same place fetched), when it takes the lock, and before and after
\* its setMetrics; overlap tells whether another call ran during it;
\* fetches counts the getJSON calls its goroutine has made
Seen0 ==
    [start |-> [up |-> 0, totalScrapes |-> 0, jsonParseFailures |-> 0],
     fetches |-> 0,
     lock |-> [gauges |-> << >>, vecs |-> << >>],
     pre |-> 0,
     post |-> [gauges |-> << >>, vecs |-> << >>, failures |-> 0],
     prev |-> FetchError,
     overlap |-> FALSE]

\* NewExporter: the definitions of the server type, one instrument each
NewExporter(serverType) ==
    /\ ServerType = serverType
    /\ up = 0
    /\ totalScrapes = 0
    /\ jsonParseFailures = 0
    /\ gaugeMetrics = [id \in {d.id : d \in Range(GaugeDefsOf(serverType))} |-> F(0)]
    /\ counterVecMetrics =
          [id \in {d.id : d \in Range(CounterVecDefsOf(serverType))} |-> NewVec]
    /\ mutex = 0

\* no Collect call made yet
NoCalls ==
    /\ pc = [p \in Procs |-> "idle"]
    /\ spc = [p \in Procs |-> "none"]
    /\ fetched = [p \in Procs |-> FetchError]
    /\ jsonStats = [p \in Procs |-> "open"]
    /\ statsMap = [p \in Procs |-> EmptyMap]
    /\ out = [p \in Procs |-> << >>]
    /\ calls = 0
    /\ seen = [p \in Procs |-> Seen0]

Init ==
    /\ \E serverType \in ServerTypes : NewExporter(serverType)
    /\ NoCalls
    /\ histIn = EmptyMap
    /\ histOut = NoHistogram

(***************************************************************************)
(* Collect                                                                 *)
(***************************************************************************)
\* jsonStats := make(chan []StatsEntry); go e.scrape(jsonStats).
\* p names the place of a call and of its goroutine: a new call takes a place
\* whose call has returned and whose goroutine has ended; maxCalls bounds
\* the calls of a run.
CollectStart(p, maxCalls) ==
    /\ pc[p] \in {"idle", "done"}
    /\ spc[p] \in {"none", "done"}
    /\ calls < maxCalls
    /\ calls' = calls + 1
    /\ pc' = [pc EXCEPT ![p] = "lock"]
    /\ spc' = [spc EXCEPT ![p] = "inc"]
    /\ jsonStats' = [jsonStats EXCEPT ![p] = "open"]
    /\ fetched' = [fetched EXCEPT ![p] = FetchError]
    /\ statsMap' = [statsMap EXCEPT ![p] = EmptyMap]
    /\ out' = [out EXCEPT ![p] = << >>]
    /\ seen' = [q \in Procs |->
                  IF q = p
                  THEN [Seen0 EXCEPT
                          !.start = [up |-> up, totalScrapes |-> totalScrapes,
                                     jsonParseFailures |-> jsonParseFailures],
                          !.prev = fetched[p],
                          !.overlap = \E r \in Procs \ {p} : Running(r)]
                  ELSE IF Running(q) THEN [seen[q] EXCEPT !.overlap = TRUE]
                  ELSE seen[q]]
    /\ UNCHANGED <<ServerType, exporter, mutex, histVars>>

\* a lock that never waits
NeverWaits(p) == TRUE

\* e.mutex.Lock()
MutexFree(p) == mutex = 0

Lock(p) ==
    /\ pc[p] = "lock"
    /\ MutexFree(p)
    /\ mutex' = p
    /\ pc' = [pc EXCEPT ![p] = "reset"]
    /\ seen' = [seen EXCEPT ![p].lock = [gauges |-> gaugeMetrics,
                                         vecs |-> counterVecMetrics]]
    /\ UNCHANGED <<ServerType, exporter, spc, fetched, jsonStats, statsMap, out,
                   calls, histVars>>

\* e.resetMetrics()
resetMetrics(p) ==
    /\ pc[p] = "reset"
    /\ counterVecMetrics' = ResetMetricsResult(counterVecMetrics)
    /\ pc' = [pc EXCEPT ![p] = "set"]
    /\ UNCHANGED <<ServerType, up, totalScrapes, jsonParseFailures, gaugeMetrics,
                   mutex, spc, fetched, jsonStats, statsMap, out, calls, seen,
                   histVars>>

\* the effect of setMetrics once stats := <-jsonStats has returned stats
SetMetricsApply(p, stats) ==
    LET r == SetMetricsResult(ServerType, stats, gaugeMetrics, counterVecMetrics,
                              jsonParseFailures)
    IN  /\ statsMap' = [statsMap EXCEPT ![p] = r.statsMap]
        /\ gaugeMetrics' = r.gauges
        /\ counterVecMetrics' = r.vecs
        /\ jsonParseFailures' = r.failures
        /\ seen' = [seen EXCEPT ![p].pre = jsonParseFailures,
                                ![p].post = [gauges |-> r.gauges, vecs |-> r.vecs,
                                             failures |-> r.failures]]
        /\ pc' = [pc EXCEPT ![p] = "sendUp"]

\* one channel held by the exporter and used by every call
SharedChan(p) == 1

\* the channel call p receives on: the jsonStats made at the top of that
\* same call and handed to its own goroutine, named by the place of the call
ChanOf(p) == p

\* a receive that does not wait: nil unless a value is already offered
setMetricsNoWait(p) ==
    /\ pc[p] = "set"
    /\ \/ /\ spc[p] = "send"
          /\ SetMetricsApply(p, fetched[p].data)
          /\ spc' = [spc EXCEPT ![p] = "return"]
       \/ /\ spc[p] # "send"
          /\ SetMetricsApply(p, << >>)
          /\ UNCHANGED spc
    /\ UNCHANGED <<ServerType, up, totalScrapes, mutex, fetched, jsonStats, out,
                   calls, histVars>>

\* statsMap := e.setMetrics(jsonStats): the receive meets scrape's send, or
\* finds the channel closed and yields nil
setMetrics(p) ==
    /\ pc[p] = "set"
    /\ \/ /\ spc[ChanOf(p)] = "send"
          /\ jsonStats[ChanOf(p)] = "open"
          /\ SetMetricsApply(p, fetched[ChanOf(p)].data)
          /\ spc' = [spc EXCEPT ![ChanOf(p)] = "return"]
       \/ /\ jsonStats[ChanOf(p)] = "closed"
          /\ SetMetricsApply(p, << >>)
          /\ UNCHANGED spc
    /\ UNCHANGED <<ServerType, up, totalScrapes, mutex, fetched, jsonStats, out,
                   calls, histVars>>

\* ch <- e.up.  The instrument itself is sent; the value the receiver
\* reads from it is taken to be the value at the send.
SendUp(p) ==
    /\ pc[p] = "sendUp"
    /\ out' = [out EXCEPT ![p] = Emit(@, {M("up", 0, "", up)})]
    /\ pc' = [pc EXCEPT ![p] = "sendTotal"]
    /\ UNCHANGED <<ServerType, exporter, mutex, spc, fetched, jsonStats, statsMap,
                   calls, seen, histVars>>

\* ch <- e.totalScrapes
SendTotalScrapes(p) ==
    /\ pc[p] = "sendTotal"
    /\ out' = [out EXCEPT ![p] = Emit(@, {M("totalScrapes", 0, "", totalScrapes)})]
    /\ pc' = [pc EXCEPT ![p] = "sendFailures"]
    /\ UNCHANGED <<ServerType, exporter, mutex, spc, fetched, jsonStats, statsMap,
                   calls, seen, histVars>>

\* ch <- e.jsonParseFailures
SendJsonParseFailures(p) ==
    /\ pc[p] = "sendFailures"
    /\ out' = [out EXCEPT ![p] =
                  Emit(@, {M("jsonParseFailures", 0, "", jsonParseFailures)})]
    /\ pc' = [pc EXCEPT ![p] = "collect"]
    /\ UNCHANGED <<ServerType, exporter, mutex, spc, fetched, jsonStats, statsMap,
                   calls, seen, histVars>>

\* e.collectMetrics(ch, statsMap)
CollectMetrics(p) ==
    /\ pc[p] = "collect"
    /\ out' = [out EXCEPT ![p] =
                  collectMetrics(@, ServerType, counterVecMetrics, gaugeMetrics,
                                 statsMap[p])]
    /\ pc' = [pc EXCEPT ![p] = "unlock"]
    /\ UNCHANGED <<ServerType, exporter, mutex, spc, fetched, jsonStats, statsMap,
                   calls, seen, histVars>>

\* defer e.mutex.Unlock(), as Collect returns
Unlock(p) ==
    /\ pc[p] = "unlock"
    /\ mutex' = 0
    /\ pc' = [pc EXCEPT ![p] = "done"]
    /\ UNCHANGED <<ServerType, exporter, spc, fetched, jsonStats, statsMap, out,
                   calls, seen, histVars>>

(***************************************************************************)
(* scrape, the goroutine of one Collect call                               *)
(***************************************************************************)
\* a scrape counted only when no other scrape is under way
ScrapeIncCoalesced(p) ==
    /\ spc[p] = "inc"
    /\ totalScrapes' = IF \E q \in Procs \ {p} : spc[q] \in {"fetch", "down", "up"}
                       THEN totalScrapes ELSE totalScrapes + 1
    /\ spc' = [spc EXCEPT ![p] = "fetch"]
    /\ UNCHANGED <<ServerType, up, jsonParseFailures, gaugeMetrics,
                   counterVecMetrics, mutex, pc, fetched, jsonStats, statsMap, out,
                   calls, seen, histVars>>

\* e.totalScrapes.Inc()
ScrapeInc(p) ==
    /\ spc[p] = "inc"
    /\ totalScrapes' = totalScrapes + 1
    /\ spc' = [spc EXCEPT ![p] = "fetch"]
    /\ UNCHANGED <<ServerType, up, jsonParseFailures, gaugeMetrics,
                   counterVecMetrics, mutex, pc, fetched, jsonStats, statsMap, out,
                   calls, seen, histVars>>

\* err := getJSON(url, e.ApiKey, &data) with err != nil
GetJSONFails(p) ==
    /\ spc[p] = "fetch"
    /\ fetched' = [fetched EXCEPT ![p] = FetchError]
    /\ spc' = [spc EXCEPT ![p] = "down"]
    /\ seen' = [seen EXCEPT ![p].fetches = @ + 1]
    /\ UNCHANGED <<ServerType, exporter, mutex, pc, jsonStats, statsMap, out,
                   calls, histVars>>

\* err := getJSON(url, e.ApiKey, &data) with err == nil and data decoded
GetJSONReturns(p, arrays) ==
    /\ spc[p] = "fetch"
    /\ \E data \in arrays : fetched' = [fetched EXCEPT ![p] = FetchOK(data)]
    /\ spc' = [spc EXCEPT ![p] = "up"]
    /\ seen' = [seen EXCEPT ![p].fetches = @ + 1]
    /\ UNCHANGED <<ServerType, exporter, mutex, pc, jsonStats, statsMap, out,
                   calls, histVars>>

\* the failure path without e.up.Set(0)
ScrapeDownKeepsUp(p) ==
    /\ spc[p] = "down"
    /\ spc' = [spc EXCEPT ![p] = "failInc"]
    /\ UNCHANGED <<ServerType, exporter, mutex, pc, fetched, jsonStats, statsMap,
                   out, calls, seen, histVars>>

\* e.up.Set(0)
ScrapeDown(p) ==
    /\ spc[p] = "down"
    /\ up' = 0
    /\ spc' = [spc EXCEPT ![p] = "failInc"]
    /\ UNCHANGED <<ServerType, totalScrapes, jsonParseFailures, gaugeMetrics,
                   counterVecMetrics, mutex, pc, fetched, jsonStats, statsMap, out,
                   calls, seen, histVars>>

\* the failure path without e.jsonParseFailures.Inc()
ScrapeFailNoInc(p) ==
    /\ spc[p] = "failInc"
    /\ spc' = [spc EXCEPT ![p] = "return"]
    /\ UNCHANGED <<ServerType, exporter, mutex, pc, fetched, jsonStats, statsMap,
                   out, calls, seen, histVars>>

\* e.jsonParseFailures.Inc(); return
ScrapeFailInc(p) ==
    /\ spc[p] = "failInc"
    /\ jsonParseFailures' = jsonParseFailures + 1
    /\ spc' = [spc EXCEPT ![p] = "return"]
    /\ UNCHANGED <<ServerType, up, totalScrapes, gaugeMetrics, counterVecMetrics,
                   mutex, pc, fetched, jsonStats, statsMap, out, calls, seen,
                   histVars>>

\* the success path without e.up.Set(1)
ScrapeUpKeepsUp(p) ==
    /\ spc[p] = "up"
    /\ spc' = [spc EXCEPT ![p] = "send"]
    /\ UNCHANGED <<ServerType, exporter, mutex, pc, fetched, jsonStats, statsMap,
                   out, calls, seen, histVars>>

\* e.up.Set(1); then jsonStats <- data waits for the receive of setMetrics
ScrapeUp(p) ==
    /\ spc[p] = "up"
    /\ up' = 1
    /\ spc' = [spc EXCEPT ![p] = "send"]
    /\ UNCHANGED <<ServerType, totalScrapes, jsonParseFailures, gaugeMetrics,
                   counterVecMetrics, mutex, pc, fetched, jsonStats, statsMap, out,
                   calls, seen, histVars>>

\* scrape returning without closing the channel
ScrapeNoClose(p) ==
    /\ spc[p] = "return"
    /\ spc' = [spc EXCEPT ![p] = "done"]
    /\ UNCHANGED <<ServerType, exporter, mutex, pc, fetched, jsonStats, statsMap,
                   out, calls, seen, histVars>>

\* defer close(jsonStats), as scrape returns
ScrapeClose(p) ==
    /\ spc[p] = "return"
    /\ jsonStats' = [jsonStats EXCEPT ![p] = "closed"]
    /\ spc' = [spc EXCEPT ![p] = "done"]
    /\ UNCHANGED <<ServerType, exporter, mutex, pc, fetched, statsMap, out, calls,
                   seen, histVars>>

(***************************************************************************)
(* Specifications                                                          *)
(***************************************************************************)
\* Collect calls that may overlap
Next ==
    \E p \in Procs :
        \/ CollectStart(p, MaxCycles)
        \/ Lock(p)
        \/ resetMetrics(p)
        \/ setMetrics(p)
        \/ SendUp(p)
        \/ SendTotalScrapes(p)
        \/ SendJsonParseFailures(p)
        \/ CollectMetrics(p)
        \/ Unlock(p)
        \/ ScrapeInc(p)
        \/ GetJSONFails(p)
        \/ GetJSONReturns(p, StatsOf[FALSE][ServerType])
        \/ ScrapeDown(p)
        \/ ScrapeFailInc(p)
        \/ ScrapeUp(p)
        \/ ScrapeClose(p)

Spec == Init /\ [][Next]_vars

\* Collect calls one after the other, over the wide set of arrays
NextSeq ==
    \/ CollectStart(1, SeqCycles)
    \/ Lock(1)
    \/ resetMetrics(1)
    \/ setMetrics(1)
    \/ SendUp(1)
    \/ SendTotalScrapes(1)
    \/ SendJsonParseFailures(1)
    \/ CollectMetrics(1)
    \/ Unlock(1)
    \/ ScrapeInc(1)
    \/ GetJSONFails(1)
    \/ GetJSONReturns(1, StatsOf[TRUE][ServerType])
    \/ ScrapeDown(1)
    \/ ScrapeFailInc(1)
    \/ ScrapeUp(1)
    \/ ScrapeClose(1)

SpecSeq == Init /\ [][NextSeq]_vars

\* Collect calls one after the other, the server repeating a name
NextRepeat ==
    \/ CollectStart(1, MaxCycles)
    \/ Lock(1)
    \/ resetMetrics(1)
    \/ setMetrics(1)
    \/ SendUp(1)
    \/ SendTotalScrapes(1)
    \/ SendJsonParseFailures(1)
    \/ CollectMetrics(1)
    \/ Unlock(1)
    \/ ScrapeInc(1)
    \/ GetJSONFails(1)
    \/ GetJSONReturns(1, RepeatStats[ServerType])
    \/ ScrapeDown(1)
    \/ ScrapeFailInc(1)
    \/ ScrapeUp(1)
    \/ ScrapeClose(1)

SpecRepeat == Init /\ [][NextRepeat]_vars


\* makeRecursorRTimeHistogram applied alone to a statsMap holding the five
\* bucket keys with any counts
BucketCounts == (0..MaxCount) \cup {10, 100, 1000}

InitHist ==
    /\ NewExporter("recursor")
    /\ NoCalls
    /\ histIn \in [BucketKeys -> {F(c) : c \in BucketCounts}]
    /\ histOut = NoHistogram

BuildHistogram ==
    /\ histOut.err
    /\ histOut' = makeRecursorRTimeHistogram(histIn)
    /\ UNCHANGED <<ServerType, exporter, mutex, pc, spc, fetched, jsonStats,
                   statsMap, out, calls, seen, histIn>>

NextHist == BuildHistogram

SpecHist == InitHist /\ [][NextHist]_vars

(***************************************************************************)
(* Properties of makeRecursorRTimeHistogram (under SpecHist)               *)
(***************************************************************************)
HistBuilt == ~histOut.err

\* the sum of the five input counts
InputSum ==
    Uint64(histIn["answers0-1"]) + Uint64(histIn["answers1-10"])
      + Uint64(histIn["answers10-100"]) + Uint64(histIn["answers100-1000"])
      + Uint64(histIn["answers-slow"])

\* the bucket counts of the histogram as exposed, in ascending bound order:
\* the finite buckets, then the +Inf bucket, whose count is the
\* histogram's sample count
ExposedCounts ==
    LET ks == SortFloat64s(DOMAIN histOut.buckets)
    IN  [i \in 1..(Len(ks) + 1) |->
            IF i <= Len(ks) THEN histOut.buckets[ks[i]] ELSE histOut.count]

\* C6: for any five input bucket counts the cumulative counts are
\* non-decreasing in ascending bound order, and the count of the final
\* (+Inf) bucket equals the sum of all five input counts.
C6_CumulativeMonotone ==
    HistBuilt =>
        /\ \A i, j \in DOMAIN ExposedCounts :
              i < j => ExposedCounts[i] <= ExposedCounts[j]
        /\ ExposedCounts[Len(ExposedCounts)] = InputSum

\* a histogram built from counts that decrease from bucket to bucket and a
\* non-zero overflow count
C6_Witness ==
    /\ HistBuilt
    /\ Uint64(histIn["answers0-1"]) > Uint64(histIn["answers1-10"])
    /\ Uint64(histIn["answers1-10"]) > Uint64(histIn["answers10-100"])
    /\ Uint64(histIn["answers-slow"]) > 0

\* C7: the histogram has exactly the finite bounds 0.001, 0.01, 0.1 and 1;
\* the count at each bound is the sum of the input counts of the finite
\* buckets at or below it; answers-slow is in no finite bucket and is in
\* the sample count, which is the sum of all five; the sum value is 0;
\* inputs 1, 10, 100, 1000, 0 give 1, 11, 111, 1111 and count 1111.
C7_HistogramShape ==
    HistBuilt =>
        /\ DOMAIN histOut.buckets = {<<1, 1000>>, <<1, 100>>, <<1, 10>>, <<1, 1>>}
        /\ histOut.buckets[<<1, 1000>>] = Uint64(histIn["answers0-1"])
        /\ histOut.buckets[<<1, 100>>] =
              Uint64(histIn["answers0-1"]) + Uint64(histIn["answers1-10"])
        /\ histOut.buckets[<<1, 10>>] =
              Uint64(histIn["answers0-1"]) + Uint64(histIn["answers1-10"])
                + Uint64(histIn["answers10-100"])
        /\ histOut.buckets[<<1, 1>>] =
              Uint64(histIn["answers0-1"]) + Uint64(histIn["answers1-10"])
                + Uint64(histIn["answers10-100"]) + Uint64(histIn["answers100-1000"])
        /\ histOut.count = InputSum
        /\ histOut.sum = 0
        /\ (/\ histIn["answers0-1"] = F(1) /\ histIn["answers1-10"] = F(10)
            /\ histIn["answers10-100"] = F(100) /\ histIn["answers100-1000"] = F(1000)
            /\ histIn["answers-slow"] = F(0))
           => /\ histOut.buckets[<<1, 1000>>] = 1 /\ histOut.buckets[<<1, 100>>] = 11
              /\ histOut.buckets[<<1, 10>>] = 111 /\ histOut.buckets[<<1, 1>>] = 1111
              /\ histOut.count = 1111

\* the histogram of the inputs 1, 10, 100, 1000 and an overflow count of 2
C7_Witness ==
    /\ HistBuilt
    /\ histIn["answers0-1"] = F(1) /\ histIn["answers1-10"] = F(10)
    /\ histIn["answers10-100"] = F(100) /\ histIn["answers100-1000"] = F(1000)
    /\ histIn["answers-slow"] = F(2)
    /\ histOut.count = 1113


(***************************************************************************)
(* Properties of the collection cycle                                      *)
(***************************************************************************)
\* the call holds the lock: from resetMetrics to the deferred Unlock
InCritical(p) == pc[p] \in {"reset", "set", "sendUp", "sendTotal", "sendFailures",
                            "collect", "unlock"}

\* collectMetrics has returned: everything the call sends has been sent
Published(p) == pc[p] \in {"unlock", "done"}

Failed(p) == fetched[p].err

KindOf(batch) == (CHOOSE m \in batch : TRUE).kind

\* the kinds of the sends of call p, in order
KindsOf(p) == [i \in DOMAIN out[p] |-> KindOf(out[p][i])]

\* the batch of the given kind that call p has sent ({} if none)
BatchOf(p, kind) ==
    IF \E i \in DOMAIN out[p] : KindOf(out[p][i]) = kind
    THEN out[p][CHOOSE i \in DOMAIN out[p] : KindOf(out[p][i]) = kind]
    ELSE {}

NoLabels(vecs) == \A id \in DOMAIN vecs : DOMAIN vecs[id] = {}

\* C1: at most one call is between the start of resetMetrics and the end of
\* collectMetrics; while a call is there the gauges and counter vectors are
\* what that call found, reset and set, they change only in a step of the
\* call holding the lock, and the gauges and counter vectors a call sends
\* are the ones its own setMetrics left.
C1_Critical ==
    /\ \A p, q \in Procs : InCritical(p) /\ InCritical(q) => p = q
    /\ \A p \in Procs :
        /\ InCritical(p) => mutex = p
        /\ pc[p] = "reset" =>
              /\ gaugeMetrics = seen[p].lock.gauges
              /\ counterVecMetrics = seen[p].lock.vecs
        /\ pc[p] = "set" =>
              /\ gaugeMetrics = seen[p].lock.gauges
              /\ NoLabels(counterVecMetrics)
        /\ pc[p] \in {"sendUp", "sendTotal", "sendFailures", "collect", "unlock"} =>
              /\ gaugeMetrics = seen[p].post.gauges
              /\ counterVecMetrics = seen[p].post.vecs
        /\ ~Published(p) => BatchOf(p, "counter") = {} /\ BatchOf(p, "gauge") = {}
        /\ Published(p) =>
              /\ BatchOf(p, "counter") = CounterBatch(seen[p].post.vecs)
              /\ BatchOf(p, "gauge") = GaugeBatch(seen[p].post.gauges)

\* a step that changes a gauge or a counter vector is a step of the call
\* holding the lock
C1_OnlyHolderWrites ==
    (gaugeMetrics' # gaugeMetrics \/ counterVecMetrics' # counterVecMetrics)
        => mutex # 0 /\ mutex' = mutex /\ pc'[mutex] # pc[mutex]

\* C1: both parts above, in every state and every step, under any
\* interleaving of overlapping Collect calls.
C1_ExclusiveCycle == [](C1_Critical) /\ [][C1_OnlyHolderWrites]_vars

\* a call has sent its counter vectors and still holds the lock while
\* another call, whose fetch has returned, waits for the lock
C1_Witness ==
    \E p, q \in Procs :
        /\ p # q
        /\ pc[p] = "unlock" /\ BatchOf(p, "counter") # {}
        /\ pc[q] = "lock" /\ spc[q] = "send"

C3_AsStated ==
    \A p \in Procs :
        Published(p) /\ Failed(p) =>
            \A i \in DOMAIN out[p] :
                KindOf(out[p][i]) \in {"up", "totalScrapes", "jsonParseFailures"}

\* C3 amended: a cycle whose fetch failed sends health, scrape-count and
\* parse-failure and then every gauge of the server type, each with the
\* value it had before the cycle; it sends no counter label and no
\* histogram.
C3_FailedCycleSends ==
    \A p \in Procs :
        Published(p) /\ Failed(p) =>
            /\ KindsOf(p) = IF DOMAIN gaugeMetrics = {}
                            THEN <<"up", "totalScrapes", "jsonParseFailures">>
                            ELSE <<"up", "totalScrapes", "jsonParseFailures", "gauge">>
            /\ BatchOf(p, "gauge") = GaugeBatch(seen[p].lock.gauges)

\* a failed cycle of a recursor exporter that has sent a gauge set by an
\* earlier cycle
C3_Witness ==
    \E p \in Procs :
        /\ Published(p) /\ Failed(p) /\ ServerType = "recursor"
        /\ \E m \in BatchOf(p, "gauge") : m.value # F(0)


\* the fetch of call p succeeded with the array data
Fetched(p, data) == fetched[p] = FetchOK(data)

Names(data) == {e.Name : e \in Range(data)}

\* the table keys the array of call p lacks
MissingKeys(p) == RegistryKeys(ServerType) \ Names(fetched[p].data)

\* the gauges, counter vectors and parse failures a cycle on the full
\* snapshot would have left, started where call p started
AfterFullCycle(p) ==
    SetMetricsResult(ServerType, FullStats(ServerType, 1), seen[p].lock.gauges,
                     ResetMetricsResult(seen[p].lock.vecs),
                     seen[p].start.jsonParseFailures)

\* C4: a successful cycle on the full snapshot with one table key k removed
\* raises parse-failure by the number of gauge definitions and labelMap
\* entries that refer to k, and leaves every gauge, counter label and the
\* histogram not fed by k as a cycle on the full snapshot would.
C4_MissingKey ==
    (/\ pc[1] = "done" /\ ~Failed(1)
     /\ Cardinality(MissingKeys(1)) = 1
     /\ Fetched(1, Stats(ServerType, 1, MissingKeys(1))))
    => LET k == CHOOSE x \in MissingKeys(1) : TRUE
           full == AfterFullCycle(1)
       IN  /\ full.failures = seen[1].start.jsonParseFailures
           /\ jsonParseFailures = seen[1].start.jsonParseFailures + Refs(ServerType, k)
           /\ Refs(ServerType, k) >= 1
           /\ \A d \in Range(GaugeDefsOf(ServerType)) :
                 d.key # k => gaugeMetrics[d.id] = full.gauges[d.id]
           /\ \A t \in CounterPairs(ServerType) :
                 t[2] # k =>
                    /\ t[3] \in DOMAIN counterVecMetrics[t[1]]
                    /\ counterVecMetrics[t[1]][t[3]] = full.vecs[t[1]][t[3]]
           /\ (ServerType = "recursor" /\ k \notin BucketKeys) =>
                 BatchOf(1, "histogram") =
                    {M("histogram", 0, "", makeRecursorRTimeHistogram(full.statsMap))}

\* a second cycle of a recursor exporter on the full snapshot without
\* qa-latency, the key of the first gauge definition
C4_Witness ==
    /\ pc[1] = "done" /\ calls >= 2
    /\ Fetched(1, Stats("recursor", 1, {"qa-latency"}))
    /\ ServerType = "recursor"

\* C5: two consecutive successful cycles on identical snapshots leave every
\* counter vector with the same labels and the same values, whatever the
\* cycles before them left.
C5_Idempotent ==
    (/\ pc[1] = "done" /\ calls >= 2
     /\ ~Failed(1) /\ seen[1].prev = fetched[1])
    => counterVecMetrics = seen[1].lock.vecs

\* the third cycle repeats the snapshot of the second, which lacks
\* qa-latency; the first cycle had another snapshot, whose latency the gauge
\* still shows
C5_Witness ==
    /\ pc[1] = "done" /\ calls = 3
    /\ Fetched(1, Stats("recursor", 1, {"qa-latency"}))
    /\ seen[1].prev = fetched[1]
    /\ ServerType = "recursor"
    /\ gaugeMetrics[1] # F(0)
    /\ gaugeMetrics[1] # F(5)
    /\ ~NoLabels(counterVecMetrics)

\* C8: after a cycle whose fetch succeeded with a non-empty snapshot each
\* counter vector has exactly the labels whose keys are in the snapshot,
\* each with the snapshot's value, whatever labels earlier cycles had set:
\* questions=10, tcp-questions=2 give udp=10, tcp=2; without cache-misses
\* the lookups vector has hit=8 and no miss, and parse-failure rose by 1.
C8_LabelsFromSnapshot ==
    (pc[1] = "done" /\ ~Failed(1) /\ fetched[1].data # << >>)
    => /\ \A d \in Range(CounterVecDefsOf(ServerType)) :
            /\ DOMAIN counterVecMetrics[d.id] \subseteq {e[2] : e \in d.labelMap}
            /\ \A e \in d.labelMap :
                 LET entries == {x \in Range(fetched[1].data) : x.Name = e[1]}
                 IN  /\ entries = {} => e[2] \notin DOMAIN counterVecMetrics[d.id]
                     /\ \A x \in entries :
                          /\ e[2] \in DOMAIN counterVecMetrics[d.id]
                          /\ counterVecMetrics[d.id][e[2]] = x.Value
       /\ Fetched(1, Stats("recursor", 1, {"cache-misses"})) /\ ServerType = "recursor"
            => /\ DOMAIN counterVecMetrics[1] = {"udp", "tcp"}
               /\ counterVecMetrics[1]["udp"] = F(10)
               /\ counterVecMetrics[1]["tcp"] = F(2)
               /\ DOMAIN counterVecMetrics[3] = {"hit"}
               /\ counterVecMetrics[3]["hit"] = F(8)
               /\ jsonParseFailures = seen[1].start.jsonParseFailures + 1

\* a cycle without cache-misses that follows a cycle which had set miss
C8_Witness ==
    /\ pc[1] = "done" /\ ServerType = "recursor"
    /\ Fetched(1, Stats("recursor", 1, {"cache-misses"}))
    /\ "miss" \in DOMAIN seen[1].lock.vecs[3]

\* C9: in a cycle no other call overlaps, whose fetch succeeds with a
\* snapshot holding every table key, the first three sends are health = 1,
\* scrape-count = its value before + 1 and parse-failure = its value before
\* (1, 1, 0 on a fresh exporter); after any run of such cycles health is 1
\* if the last fetch succeeded and 0 if it failed.
C9_Health ==
    /\ pc[1] = "done" => up = IF Failed(1) THEN 0 ELSE 1
    /\ (/\ Len(out[1]) >= 3 /\ ~Failed(1)
        /\ \E v \in 1..NumProfiles : Fetched(1, FullStats(ServerType, v)))
       => /\ out[1][1] = {M("up", 0, "", 1)}
          /\ out[1][2] = {M("totalScrapes", 0, "", seen[1].start.totalScrapes + 1)}
          /\ out[1][3] = {M("jsonParseFailures", 0, "", seen[1].start.jsonParseFailures)}
          /\ calls = 1 => /\ out[1][2] = {M("totalScrapes", 0, "", 1)}
                          /\ out[1][3] = {M("jsonParseFailures", 0, "", 0)}

\* a successful cycle on a full snapshot after a failed one
C9_Witness ==
    /\ pc[1] = "done" /\ calls >= 2
    /\ Fetched(1, FullStats(ServerType, 1))
    /\ seen[1].start.up = 0
    /\ seen[1].start.jsonParseFailures > 0
    /\ out[1][1] = {M("up", 0, "", 1)}

Rank(kind) ==
    CASE kind = "up" -> 1
      [] kind = "totalScrapes" -> 2
      [] kind = "jsonParseFailures" -> 3
      [] kind = "counter" -> 4
      [] kind = "gauge" -> 5
      [] kind = "histogram" -> 6

\* C10: in every cycle the sends come in the order health, scrape-count,
\* parse-failure, counter vectors, gauges, histogram; each is sent at most
\* once, nothing is sent before health, and a finished cycle has sent the
\* first three.
C10_Order ==
    \A p \in Procs :
        /\ \A i \in DOMAIN out[p] : \A m \in out[p][i] : m.kind = KindOf(out[p][i])
        /\ \A i, j \in DOMAIN out[p] :
              i < j => Rank(KindsOf(p)[i]) < Rank(KindsOf(p)[j])
        /\ Len(out[p]) >= 1 => KindsOf(p)[1] = "up"
        /\ \A i \in DOMAIN out[p] :
              /\ KindsOf(p)[i] \in {"up", "totalScrapes", "jsonParseFailures", "histogram"}
                    => Cardinality(out[p][i]) = 1
              /\ \A m, n \in out[p][i] : m.id = n.id /\ m.label = n.label => m = n
        /\ Published(p) =>
              /\ Len(out[p]) >= 3
              /\ SubSeq(KindsOf(p), 1, 3) = <<"up", "totalScrapes", "jsonParseFailures">>

\* a recursor cycle that has sent all six kinds
C10_Witness ==
    \E p \in Procs :
        /\ Published(p)
        /\ KindsOf(p) = <<"up", "totalScrapes", "jsonParseFailures", "counter",
                          "gauge", "histogram">>

(***************************************************************************)
(* The scrape goroutine and the lock                                       *)
(***************************************************************************)
\* the goroutine of call p is between its start and its last update of
\* scrape-count, health and parse-failure, the fetch included
Scraping(p) == spc[p] \in {"inc", "fetch", "down", "failInc", "up"}

\* the goroutine of call p has issued its fetch
FetchIssued(p) == spc[p] \in {"down", "failInc", "up", "send", "return", "done"}

\* setMetrics of call p has returned
Populated(p) == pc[p] \in {"sendUp", "sendTotal", "sendFailures", "collect",
                           "unlock", "done"}

\* C11 as stated: a call issues its fetch and makes its updates of health,
\* scrape-count and parse-failure only while it holds the lock, so the
\* scrape of one call overlaps neither the scrape nor the reset, populate
\* or publish of another.
C11_AsStated ==
    \A p \in Procs :
        /\ (Running(p) /\ (FetchIssued(p) \/ spc[p] = "fetch")) => mutex = p
        /\ \A q \in Procs \ {p} : Scraping(p) => ~Scraping(q) /\ ~InCritical(q)

\* C11 amended: reset, populate and publish of a call run while that call
\* holds the lock, and at most one call is there at a time; the scrape runs
\* in a goroutine started before the lock is requested, so a call waiting
\* for the lock does not hold it whatever its scrape has done; the scrape
\* of a call has made all its updates before the populate of that call ends.
C11_LockCoversResetToPublish ==
    /\ \A p, q \in Procs : InCritical(p) /\ InCritical(q) => p = q
    /\ \A p \in Procs :
        /\ InCritical(p) <=> mutex = p
        /\ pc[p] = "lock" => spc[p] # "none"
        /\ Populated(p) => spc[p] \in {"return", "done"}
        /\ pc[p] \in {"lock", "reset"} => out[p] = << >>

\* a call waiting for the lock whose scrape has fetched and set health
\* while another call is publishing
C11_Witness ==
    \E p, q \in Procs :
        /\ p # q
        /\ pc[q] = "lock" /\ spc[q] \in {"failInc", "send"}
        /\ pc[p] = "collect" /\ mutex = p

(***************************************************************************)
(* The definitions bound by NewExporter                                    *)
(***************************************************************************)
BookkeepingKinds == <<"up", "totalScrapes", "jsonParseFailures">>

\* C12: an exporter constructed with a server type other than recursor or
\* authoritative (dnsdist, or a string no case matches) has no gauge
\* definition, no counter vector definition and no instrument of either
\* kind, and every cycle of it sends health, scrape-count and parse-failure
\* and nothing else: no gauge, no counter vector, no histogram.
C12_EmptyRegistry ==
    ServerType \notin {"recursor", "authoritative"} =>
        /\ GaugeDefsOf(ServerType) = << >>
        /\ CounterVecDefsOf(ServerType) = << >>
        /\ DOMAIN gaugeMetrics = {}
        /\ DOMAIN counterVecMetrics = {}
        /\ \A p \in Procs :
            /\ \A i \in DOMAIN out[p] :
                  KindOf(out[p][i]) \in Range(BookkeepingKinds)
            /\ Published(p) => KindsOf(p) = BookkeepingKinds

\* an exporter of an unmatched server type has published a cycle whose
\* fetch returned a non-empty array, and one of dnsdist likewise
C12_Witness ==
    \E p \in Procs :
        /\ ServerType \in {"unknown", "dnsdist"}
        /\ Published(p) /\ ~Failed(p) /\ fetched[p].data # << >>
        /\ Cardinality(DOMAIN statsMap[p]) > 0

(***************************************************************************)
(* Values set by setMetrics                                                *)
(***************************************************************************)
\* the float64 g is raw / 1000000, for a whole raw value
IsMillionth(g, raw) ==
    \/ raw[1] % 1000000 = 0 /\ g = <<raw[1] \div 1000000, 1>>
    \/ raw[1] % 1000000 # 0 /\ g = <<raw[1], 1000000>>

\* C13: after a successful cycle on a non-empty snapshot every gauge whose
\* key ends in "latency" and is in the snapshot holds the snapshot's value
\* divided by 1000000 (5000000 gives 5), and every other gauge and every
\* counter label whose key is in the snapshot holds the snapshot's value
\* unchanged.
C13_UnitConversion ==
    (pc[1] = "done" /\ ~Failed(1) /\ fetched[1].data # << >>) =>
        \A x \in Range(fetched[1].data) :
            /\ \A d \in Range(GaugeDefsOf(ServerType)) :
                  d.key = x.Name =>
                    IF d.key \in {"qa-latency", "latency"}
                    THEN /\ IsMillionth(gaugeMetrics[d.id], x.Value)
                         /\ x.Value = F(5000000) => gaugeMetrics[d.id] = F(5)
                    ELSE gaugeMetrics[d.id] = x.Value
            /\ \A t \in CounterPairs(ServerType) :
                  t[2] = x.Name =>
                    /\ t[3] \in DOMAIN counterVecMetrics[t[1]]
                    /\ counterVecMetrics[t[1]][t[3]] = x.Value

\* a recursor cycle that set the latency gauge to 5 from the raw 5000000
\* after an earlier cycle had set it from a raw value that 1000000 does not
\* divide, the other gauges holding the raw 3
C13_Witness ==
    /\ pc[1] = "done" /\ ServerType = "recursor" /\ calls >= 2
    /\ Fetched(1, FullStats("recursor", 1))
    /\ seen[1].lock.gauges[1][2] = 1000000
    /\ gaugeMetrics[1] = F(5)
    /\ gaugeMetrics[2] = F(3)

(***************************************************************************)
(* What a cycle publishes while other calls scrape                         *)
(***************************************************************************)
\* the health value call p has sent
SentUp(p) == {m.value : m \in BatchOf(p, "up")}

C14_OwnHealth ==
    \A p \in Procs :
        /\ Populated(p) /\ BatchOf(p, "up") # {}
              => SentUp(p) = {IF Failed(p) THEN 0 ELSE 1}
        /\ (/\ Published(p) /\ ~Failed(p)
            /\ Cardinality(DOMAIN statsMap[p]) > 0)
              => 0 \notin SentUp(p)

C14_StableWhilePublishing ==
    (\E p \in Procs : pc[p] \in {"sendUp", "sendTotal", "sendFailures", "collect"})
        => /\ up' = up
           /\ totalScrapes' = totalScrapes
           /\ jsonParseFailures' = jsonParseFailures

\* C14 as stated: under any interleaving of overlapping calls the health a
\* cycle sends is the outcome of its own fetch (1 on success, 0 on
\* failure), in particular never 0 next to instruments set from its own
\* successful snapshot, and health, scrape-count and parse-failure do not
\* change between the end of its setMetrics and the end of its
\* collectMetrics.
C14_AsStated == [](C14_OwnHealth) /\ [][C14_StableWhilePublishing]_vars

(***************************************************************************)
(* Scrapes and fetches per call                                            *)
(***************************************************************************)
\* the calls whose goroutine has not yet counted its scrape
NotYetCounted == {p \in Procs : spc[p] = "inc"}

C15_OnePerCall ==
    /\ totalScrapes = calls - Cardinality(NotYetCounted)
    /\ \A p \in Procs :
        /\ seen[p].fetches = IF FetchIssued(p) THEN 1 ELSE 0
        /\ Populated(p) => FetchIssued(p) /\ p \notin NotYetCounted
    /\ (\A p \in Procs : ~Running(p)) => totalScrapes = calls

C15_NeverDecrease ==
    /\ totalScrapes' >= totalScrapes
    /\ jsonParseFailures' >= jsonParseFailures

\* C15: under any interleaving and whatever the fetch outcomes, once the
\* calls made have all returned scrape-count equals their number; each call
\* issues exactly one fetch, never a second one and never none, before it
\* populates, also when calls overlap; scrape-count and parse-failure never
\* decrease.
C15_ScrapeCount == [](C15_OnePerCall) /\ [][C15_NeverDecrease]_vars

\* two overlapping calls have returned, one fetch failed and one succeeded
C15_Witness ==
    \E p, q \in Procs :
        /\ p # q /\ pc[p] = "done" /\ pc[q] = "done"
        /\ seen[p].overlap /\ seen[q].overlap
        /\ spc[p] = "done" /\ spc[q] = "done" /\ Failed(p) /\ ~Failed(q)
        /\ calls = 2 /\ totalScrapes = 2

(***************************************************************************)
(* Parse failures of a cycle                                               *)
(***************************************************************************)
\* the gauge definitions and the labelMap entries whose key is not among
\* names, counted
AbsentRefs(serverType, names) ==
    Cardinality({d \in Range(GaugeDefsOf(serverType)) : d.key \notin names})
      + Cardinality({t \in CounterPairs(serverType) : t[2] \notin names})

\* C16 as stated: a cycle whose fetch succeeds raises parse-failure by the
\* number of gauge definitions plus labelMap entries whose key the snapshot
\* lacks, for every snapshot, the empty one included.
C16_AsStated ==
    (pc[1] = "done" /\ ~Failed(1)) =>
        jsonParseFailures =
            seen[1].start.jsonParseFailures
              + AbsentRefs(ServerType, Names(fetched[1].data))

\* C16 amended: a cycle whose fetch succeeds with a snapshot of at least one
\* entry raises parse-failure by the number of gauge definitions plus
\* labelMap entries whose key the snapshot lacks, all of it in setMetrics;
\* with an empty snapshot it leaves parse-failure unchanged; building the
\* histogram, or failing to, adds nothing.
C16_ParseFailures ==
    (pc[1] = "done" /\ ~Failed(1)) =>
        LET n == IF fetched[1].data = << >> THEN 0
                 ELSE AbsentRefs(ServerType, Names(fetched[1].data))
        IN  /\ seen[1].pre = seen[1].start.jsonParseFailures
            /\ seen[1].post.failures = seen[1].pre + n
            /\ jsonParseFailures = seen[1].post.failures
            /\ BatchOf(1, "jsonParseFailures")
                  = {M("jsonParseFailures", 0, "", seen[1].pre + n)}

\* a recursor cycle on a snapshot holding no key of the tables (3 gauge
\* definitions and 18 labelMap entries unanswered) right after a cycle on
\* the empty snapshot, which added nothing
C16_Witness ==
    /\ pc[1] = "done" /\ ServerType = "recursor" /\ calls = 2
    /\ Fetched(1, Stats("recursor", 1, RegistryKeys("recursor")))
    /\ seen[1].prev = FetchOK(<< >>)
    /\ seen[1].start.jsonParseFailures = 0
    /\ jsonParseFailures = 21

(***************************************************************************)
(* A cycle whose fetch fails                                               *)
(***************************************************************************)
\* C17: in a cycle whose fetch fails the goroutine has set health to 0,
\* incremented scrape-count and incremented parse-failure once, and ended,
\* before the cycle sends anything; setMetrics adds no parse failure,
\* however many keys the tables refer to; the cycle still sends health,
\* scrape-count and parse-failure, and when no other call overlaps it they
\* are 0, the scrape-count before the cycle plus 1 and the parse-failure
\* before the cycle plus 1.
C17_FailedFetch ==
    \A p \in Procs :
        (Populated(p) /\ Failed(p)) =>
            /\ spc[p] = "done"
            /\ seen[p].post.failures = seen[p].pre
            /\ Published(p) =>
                /\ Len(out[p]) >= 3
                /\ SubSeq(KindsOf(p), 1, 3) = BookkeepingKinds
                /\ ~seen[p].overlap =>
                    /\ out[p][1] = {M("up", 0, "", 0)}
                    /\ out[p][2] =
                          {M("totalScrapes", 0, "", seen[p].start.totalScrapes + 1)}
                    /\ out[p][3] =
                          {M("jsonParseFailures", 0, "",
                             seen[p].start.jsonParseFailures + 1)}

\* a failed cycle of a recursor exporter, not overlapped, that followed a
\* successful cycle which had left health 1 and parse failures
C17_Witness ==
    \E p \in Procs :
        /\ Published(p) /\ Failed(p) /\ ~seen[p].overlap
        /\ ServerType = "recursor"
        /\ seen[p].start.up = 1
        /\ seen[p].start.jsonParseFailures >= 1
        /\ out[p][3] = {M("jsonParseFailures", 0, "",
                          seen[p].start.jsonParseFailures + 1)}

(***************************************************************************)
(* Gauges whose key is missing                                             *)
(***************************************************************************)
C18_GaugeKept ==
    (pc[1] = "done" /\ ~Failed(1)) =>
        /\ \A d \in Range(GaugeDefsOf(ServerType)) :
              /\ d.key \notin Names(fetched[1].data) =>
                    /\ gaugeMetrics[d.id] = seen[1].lock.gauges[d.id]
                    /\ calls = 1 => gaugeMetrics[d.id] = F(0)
              /\ M("gauge", d.id, "", gaugeMetrics[d.id]) \in BatchOf(1, "gauge")
        /\ fetched[1].data # << >> =>
              /\ \A d \in Range(GaugeDefsOf(ServerType)) :
                    \A x \in Range(fetched[1].data) :
                        x.Name = d.key =>
                            gaugeMetrics[d.id] = GaugeValue(d.key, x.Value)
              /\ \A t \in CounterPairs(ServerType) :
                    \A x \in Range(fetched[1].data) :
                        x.Name = t[2] =>
                            M("counter", t[1], t[3], x.Value) \in BatchOf(1, "counter")

C18_ResetKeepsGauges ==
    pc[1] = "reset" /\ pc'[1] = "set" => gaugeMetrics' = gaugeMetrics

\* C18: after a successful cycle a gauge whose key the snapshot lacks holds
\* the value it had at the end of the cycle before (0 if it was never set)
\* and is sent in that cycle; resetMetrics changes no gauge; and with a key
\* missing every gauge and counter label whose key the snapshot has is
\* still set from the snapshot and sent.
C18_MissingGauge == [](C18_GaugeKept) /\ [][C18_ResetKeepsGauges]_vars

\* a recursor cycle on a snapshot without concurrent-queries, the key of
\* the second gauge definition, after a cycle of the second value
\* assignment had set that gauge to 7
C18_Witness ==
    /\ pc[1] = "done" /\ ServerType = "recursor" /\ calls >= 2
    /\ Fetched(1, Stats("recursor", 1, {"concurrent-queries"}))
    /\ gaugeMetrics[2] = F(7)
    /\ gaugeMetrics[3] = F(3)
    /\ M("gauge", 2, "", F(7)) \in BatchOf(1, "gauge")

(***************************************************************************)
(* When the histogram is sent                                              *)
(***************************************************************************)
\* the keys of the snapshot call p received (none when its fetch failed)
SnapshotKeys(p) == IF Failed(p) THEN {} ELSE Names(fetched[p].data)

\* the value of key k in the snapshot of call p, as a whole number
SnapshotCount(p, k) ==
    Uint64((CHOOSE x \in Range(fetched[p].data) : x.Name = k).Value)

\* C19: a cycle sends the histogram exactly when the server type is
\* recursor and its snapshot has all five bucket keys, and then the one
\* built from that snapshot; when a bucket key is missing only the
\* histogram is left out: health, scrape-count, parse-failure, the counter
\* vectors and the gauges are sent as setMetrics left them, and everything
\* the missing key does not feed is as after a cycle on the full snapshot.
C19_HistogramSent ==
    (Published(1) /\ FetchIssued(1)) =>
        LET built == BatchOf(1, "histogram") # {}
        IN  /\ built <=> (ServerType = "recursor" /\ BucketKeys \subseteq SnapshotKeys(1))
            /\ Cardinality(BatchOf(1, "histogram")) <= 1
            /\ \A m \in BatchOf(1, "histogram") :
                  /\ ~m.value.err
                  /\ m.value.count =
                        SnapshotCount(1, "answers0-1") + SnapshotCount(1, "answers1-10")
                          + SnapshotCount(1, "answers10-100")
                          + SnapshotCount(1, "answers100-1000")
                          + SnapshotCount(1, "answers-slow")
                  /\ m.value.buckets[<<1, 1000>>] = SnapshotCount(1, "answers0-1")
            /\ SubSeq(KindsOf(1), 1, 3) = BookkeepingKinds
            /\ BatchOf(1, "counter") = CounterBatch(seen[1].post.vecs)
            /\ BatchOf(1, "gauge") = GaugeBatch(seen[1].post.gauges)
            /\ (/\ ServerType = "recursor" /\ ~Failed(1)
                /\ \E k \in BucketKeys : Fetched(1, Stats("recursor", 1, {k})))
               => LET full == AfterFullCycle(1)
                  IN  /\ ~built
                      /\ BatchOf(1, "gauge") = GaugeBatch(full.gauges)
                      /\ \A t \in CounterPairs("recursor") :
                            t[2] \in SnapshotKeys(1) =>
                               M("counter", t[1], t[3], full.vecs[t[1]][t[3]])
                                  \in BatchOf(1, "counter")
                      /\ BatchOf(1, "jsonParseFailures") =
                            {M("jsonParseFailures", 0, "", full.failures + 1)}

\* a recursor cycle on the snapshot without answers-slow has sent its
\* counter vectors and gauges and no histogram, after a cycle that had
\* sent one
C19_Witness ==
    /\ Published(1) /\ ServerType = "recursor" /\ calls >= 2
    /\ Fetched(1, Stats("recursor", 1, {"answers-slow"}))
    /\ seen[1].prev = FetchOK(FullStats("recursor", 1))
    /\ KindsOf(1) = <<"up", "totalScrapes", "jsonParseFailures", "counter", "gauge">>
    /\ M("gauge", 1, "", F(5)) \in BatchOf(1, "gauge")

(***************************************************************************)
(* Whose fetch a cycle consumes                                            *)
(***************************************************************************)
\* C20: under any interleaving of overlapping calls, when setMetrics of a
\* call has returned that call's goroutine has made exactly one fetch, the
\* statsMap of the call is built from that fetch's array (empty when it
\* failed), every gauge and counter label whose key that array has was set
\* from its value, a failed fetch set nothing, and the histogram the call
\* sends is built from that same array.
C20_OwnSnapshot ==
    \A p \in Procs :
        /\ pc[p] \in {"lock", "reset", "set"} => statsMap[p] = EmptyMap
        /\ Populated(p) =>
            /\ seen[p].fetches = 1
            /\ DOMAIN statsMap[p] = SnapshotKeys(p)
            /\ Failed(p) =>
                  /\ seen[p].post.gauges = seen[p].lock.gauges
                  /\ NoLabels(seen[p].post.vecs)
            /\ ~Failed(p) =>
                  \A x \in Range(fetched[p].data) :
                      /\ statsMap[p][x.Name] = x.Value
                      /\ \A d \in Range(GaugeDefsOf(ServerType)) :
                            d.key = x.Name =>
                               IF d.key \in {"qa-latency", "latency"}
                               THEN IsMillionth(seen[p].post.gauges[d.id], x.Value)
                               ELSE seen[p].post.gauges[d.id] = x.Value
                      /\ \A t \in CounterPairs(ServerType) :
                            t[2] = x.Name =>
                               /\ t[3] \in DOMAIN seen[p].post.vecs[t[1]]
                               /\ seen[p].post.vecs[t[1]][t[3]] = x.Value
            /\ \A m \in BatchOf(p, "histogram") :
                  /\ ~Failed(p)
                  /\ BucketKeys \subseteq SnapshotKeys(p)
                  /\ m.value.buckets[<<1, 1000>>] = SnapshotCount(p, "answers0-1")
                  /\ m.value.buckets[<<1, 100>>] =
                        SnapshotCount(p, "answers0-1") + SnapshotCount(p, "answers1-10")

\* two overlapping recursor calls whose fetches returned different
\* snapshots have both populated and sent, one of them the histogram of
\* its own snapshot
C20_Witness ==
    \E p, q \in Procs :
        /\ p # q /\ ServerType = "recursor"
        /\ seen[p].overlap /\ seen[q].overlap
        /\ Fetched(p, FullStats("recursor", 1))
        /\ Fetched(q, FullStats("recursor", NumProfiles))
        /\ pc[q] = "done" /\ Published(p) /\ spc[p] = "done" /\ spc[q] = "done"
        /\ BatchOf(p, "histogram") # {}

(***************************************************************************)
(* Termination of a call and of its goroutine                              *)
(***************************************************************************)
\* the steps of Collect after the goroutine is started, but for Lock
CollectStep(p) ==
    \/ resetMetrics(p)
    \/ setMetrics(p)
    \/ SendUp(p)
    \/ SendTotalScrapes(p)
    \/ SendJsonParseFailures(p)
    \/ CollectMetrics(p)
    \/ Unlock(p)

\* the arrays drawn in the runs with fairness, where only the kind of
\* outcome matters: one with a single entry and the empty one
LiveStats ==
    [t \in ServerTypes |-> {Stats(t, 1, RegistryKeys(t)), << >>}]

\* the steps of the scrape goroutine; getJSON returns one way or the other
ScrapeStep(p) ==
    \/ ScrapeInc(p)
    \/ GetJSONFails(p)
    \/ GetJSONReturns(p, LiveStats[ServerType])
    \/ ScrapeDown(p)
    \/ ScrapeFailInc(p)
    \/ ScrapeUp(p)
    \/ ScrapeClose(p)

\* Every goroutine that can run does run, every fetch returns, and the
\* receiver of ch takes what is sent: weak fairness of both threads of a
\* call.  A call waiting in Lock is handed the mutex after finitely many
\* other holders (sync.Mutex hands over to the longest waiter): strong
\* fairness of Lock.  New calls are made or not as the caller likes.
Fairness ==
    \A p \in Procs :
        /\ WF_vars(CollectStep(p))
        /\ WF_vars(ScrapeStep(p))
        /\ SF_vars(Lock(p))

\* overlapping Collect calls, every started thread running to its end
NextLive ==
    \E p \in Procs :
        \/ CollectStart(p, MaxCycles)
        \/ Lock(p)
        \/ CollectStep(p)
        \/ ScrapeStep(p)

SpecLive == Init /\ [][NextLive]_vars /\ Fairness

\* C21: if every fetch returns and the receiver keeps taking what is sent,
\* every call made, whether alone or overlapping others, and whether its
\* fetch succeeds, fails or returns the empty array, reaches the end of
\* collectMetrics and unlocks, the mutex is free again after every holder,
\* and the goroutine of every call ends.
C21_Terminates ==
    \A p \in Procs :
        /\ (pc[p] = "lock") ~> (pc[p] = "done")
        /\ (mutex = p) ~> (mutex # p)
        /\ (spc[p] = "inc") ~> (spc[p] = "done" /\ jsonStats[p] = "closed")

\* two overlapping calls have returned with the mutex free and both
\* goroutines ended, one after a failed fetch and one after the empty array
C21_Witness ==
    \E p, q \in Procs :
        /\ p # q /\ seen[p].overlap /\ seen[q].overlap
        /\ pc[p] = "done" /\ pc[q] = "done" /\ mutex = 0
        /\ spc[p] = "done" /\ spc[q] = "done"
        /\ Failed(p) /\ Fetched(q, << >>)

(***************************************************************************)
(* A name the server reports twice                                         *)
(***************************************************************************)
\* the value of the last entry of data named k
LastValue(data, k) ==
    LET last == CHOOSE i \in DOMAIN data :
                    /\ data[i].Name = k
                    /\ \A j \in DOMAIN data : data[j].Name = k => j <= i
    IN  data[last].Value

\* C22: when the fetched array repeats a name, statsMap maps the name to the
\* value of its last entry, and that value (divided by 1000000 for a
\* latency gauge) is what every gauge, counter label and histogram bucket
\* fed by the name gets.
C22_LastWins ==
    (pc[1] = "done" /\ ~Failed(1)) =>
        LET data == fetched[1].data
        IN  /\ DOMAIN statsMap[1] = Names(data)
            /\ \A k \in Names(data) :
                /\ statsMap[1][k] = LastValue(data, k)
                /\ \A d \in Range(GaugeDefsOf(ServerType)) :
                      d.key = k =>
                         IF k \in {"qa-latency", "latency"}
                         THEN IsMillionth(gaugeMetrics[d.id], LastValue(data, k))
                         ELSE gaugeMetrics[d.id] = LastValue(data, k)
                /\ \A t \in CounterPairs(ServerType) :
                      t[2] = k =>
                         /\ t[3] \in DOMAIN counterVecMetrics[t[1]]
                         /\ counterVecMetrics[t[1]][t[3]] = LastValue(data, k)
                         /\ M("counter", t[1], t[3], LastValue(data, k))
                               \in BatchOf(1, "counter")
            /\ ServerType = "recursor" =>
                  /\ BatchOf(1, "histogram") # {}
                  /\ \A m \in BatchOf(1, "histogram") :
                        /\ m.value.buckets[<<1, 1000>>] =
                              Uint64(LastValue(data, "answers0-1"))
                        /\ m.value.count =
                              Uint64(LastValue(data, "answers0-1"))
                                + Uint64(LastValue(data, "answers1-10"))
                                + Uint64(LastValue(data, "answers10-100"))
                                + Uint64(LastValue(data, "answers100-1000"))
                                + Uint64(LastValue(data, "answers-slow"))

\* a recursor cycle on the array that ends with a second answers0-1 entry
\* of value 3 (the first has 1): the label 0-1ms and the first bucket hold
\* 3; the cycle before had the second entry in front and left 1
C22_Witness ==
    /\ pc[1] = "done" /\ ServerType = "recursor" /\ calls = 2
    /\ Fetched(1, RepeatedAtEnd("recursor", "answers0-1"))
    /\ seen[1].prev = FetchOK(RepeatedAtFront("recursor", "answers0-1"))
    /\ seen[1].lock.vecs[5]["0-1ms"] = F(1)
    /\ counterVecMetrics[5]["0-1ms"] = F(3)
    /\ \E m \in BatchOf(1, "histogram") : m.value.buckets[<<1, 1000>>] = 3

(***************************************************************************)
(* Describe                                                                *)
(***************************************************************************)
\* a descriptor, by the subsystem and the name of its fully qualified name
Desc(subsystem, name) == [subsystem |-> subsystem, name |-> name]

GaugeName(serverType, id) ==
    (CHOOSE d \in Range(GaugeDefsOf(serverType)) : d.id = id).name

CounterVecName(serverType, id) ==
    (CHOOSE d \in Range(CounterVecDefsOf(serverType)) : d.id = id).name

\* what Describe sends: the descriptors of the counter vectors, of the
\* gauges, and of up, totalScrapes and jsonParseFailures
Describe(serverType, vecs, gauges) ==
    {Desc(serverType, CounterVecName(serverType, id)) : id \in DOMAIN vecs}
      \cup {Desc(serverType, GaugeName(serverType, id)) : id \in DOMAIN gauges}
      \cup {Desc(serverType, "up"),
            Desc(serverType, "exporter_total_scrapes"),
            Desc(serverType, "exporter_json_parse_failures")}

\* the descriptor of a metric Collect has sent
DescOf(serverType, m) ==
    CASE m.kind = "up" -> Desc(serverType, "up")
      [] m.kind = "totalScrapes" -> Desc(serverType, "exporter_total_scrapes")
      [] m.kind = "jsonParseFailures" -> Desc(serverType, "exporter_json_parse_failures")
      [] m.kind = "counter" -> Desc(serverType, CounterVecName(serverType, m.id))
      [] m.kind = "gauge" -> Desc(serverType, GaugeName(serverType, m.id))
      [] m.kind = "histogram" -> Desc("recursor", "response_time_seconds")

\* the descriptors of everything call p has sent
Collected(p) ==
    UNION { {DescOf(ServerType, m) : m \in out[p][i]} : i \in DOMAIN out[p] }

\* C23 as stated: for every server type the descriptor of every metric a
\* Collect call sends (health, scrape-count, parse-failure, counter
\* vectors, gauges and the recursor response-time histogram) is among the
\* descriptors Describe sends.
C23_AsStated ==
    \A p \in Procs :
        Collected(p) \subseteq Describe(ServerType, counterVecMetrics, gaugeMetrics)

====
